---- MODULE Spec2Model ----
(***************************************************************************)
(* The user directory of the catalog's postgres backend                    *)
(* (crates/lakekeeper/src/implementations/postgres/user.rs):               *)
(* list_users, delete_user, create_or_update_user and search_user, each    *)
(* one SQL statement against the users table.                              *)
(*                                                                         *)
(* Strings are sequences of one-character strings.  An Option is a         *)
(* sequence of length 0 (None / SQL NULL) or 1 (Some).                      *)
(***************************************************************************)
EXTENDS Integers, Sequences, FiniteSets, TLC

VARIABLES users, now, writes, resp, pag, hist

vars == <<users, now, writes, resp, pag, hist>>

(***************************************************************************)
(* Bounds of the model.                                                    *)
(***************************************************************************)
\* number of write statements (create_or_update_user, delete_user) issued
MaxWrites == 3
\* the clock of the store advances at most this far
MaxTime == 1
\* write statements issued while the paging caller is between two pages
MaxInterleaved == 1
\* write statements issued among the single calls with any input
MaxCallWrites == 2

None == <<>>
Some(v) == <<v>>
IsSome(o) == Len(o) = 1
Unwrap(o) == o[1]

(***************************************************************************)
(* Strings                                                                 *)
(***************************************************************************)
NameTom == <<"T", "o", "m">>
NameAnn == <<"A", "n", "n">>
EmailAx == <<"a", "@", "x">>
DeletedUserName == <<"D", "e", "l", "e", "t", "e", "d", " ", "U", "s", "e", "r">>

Lower(c) ==
    CASE c = "T" -> "t"
      [] c = "A" -> "a"
      [] c = "D" -> "d"
      [] c = "U" -> "u"
      [] c = "O" -> "o"
      [] c = "M" -> "m"
      [] OTHER -> c

LowerStr(s) == [i \in 1..Len(s) |-> Lower(s[i])]

IsAlnum(c) == c \notin {" ", "@", "~", "%", "_", "."}

(***************************************************************************)
(* Identifiers.  A UserId is an identity provider and a subject; the store *)
(* keeps its string form "<idp>~<subject>".                                *)
(***************************************************************************)
UserIds ==
    { [idp |-> "kubernetes", sub |-> "1"],
      [idp |-> "oidc", sub |-> "1"],
      [idp |-> "oidc", sub |-> "2"] }

IdpString(idp) ==
    IF idp = "oidc" THEN <<"o", "i", "d", "c">>
    ELSE <<"k", "u", "b", "e", "r", "n", "e", "t", "e", "s">>

\* UserId::to_string
UserIdToString(uid) == IdpString(uid.idp) \o <<"~">> \o <<uid.sub>>

\* TryFrom<String> for UserId: Some(uid), or None for a string that is no
\* "<idp>~<subject>" of a known identity provider
UserIdTryFrom(s) ==
    LET hits == {u \in UserIds : UserIdToString(u) = s}
    IN  IF hits = {} THEN None ELSE Some(CHOOSE u \in hits : TRUE)

\* the characters ids are made of, in ascending order of their code points
IdChars ==
    <<"1", "2", "b", "c", "d", "e", "i", "k", "n", "o", "r", "s", "t", "u", "~">>

CharRank == [c \in {IdChars[i] : i \in 1..Len(IdChars)} |->
                CHOOSE i \in 1..Len(IdChars) : IdChars[i] = c]

RECURSIVE TextLessFrom(_, _, _)
\* a < b for two strings that agree before position i
TextLessFrom(a, b, i) ==
    IF i > Len(b) THEN FALSE
    ELSE IF i > Len(a) THEN TRUE
    ELSE IF a[i] # b[i] THEN CharRank[a[i]] < CharRank[b[i]]
    ELSE TextLessFrom(a, b, i + 1)

\* text comparison a < b of the store, character by character
TextLess(a, b) == TextLessFrom(a, b, 1)

(***************************************************************************)
(* Enumerations: the domain's, the store's, and the mappings between them. *)
(***************************************************************************)
\* From<UserType> for DbUserType
DbUserTypeFrom(user_type) ==
    IF user_type = "Application" THEN "application" ELSE "human"

\* From<DbUserType> for UserType
UserTypeFrom(db_user_type) ==
    IF db_user_type = "application" THEN "Application" ELSE "Human"

\* the match on last_updated_with at the head of create_or_update_user
DbLastUpdatedWithFrom(last_updated_with) ==
    CASE last_updated_with = "CreateEndpoint" -> "create-endpoint"
      [] last_updated_with = "ConfigCallCreation" -> "config-call-creation"
      [] OTHER -> "update-endpoint"

\* the match on last_updated_with in TryFrom<UserRow> for User
LastUpdatedWithFrom(db_last_updated_with) ==
    CASE db_last_updated_with = "create-endpoint" -> "CreateEndpoint"
      [] db_last_updated_with = "config-call-creation" -> "ConfigCallCreation"
      [] OTHER -> "UpdateEndpoint"

(***************************************************************************)
(* Results                                                                 *)
(***************************************************************************)
Ok(v) == [ok |-> TRUE, val |-> v]
Err(e) == [ok |-> FALSE, err |-> e]

\* TryFrom<UserRow> for User
UserTryFrom(row) ==
    LET id == UserIdTryFrom(row.id)
    IN  IF ~IsSome(id) THEN Err("MappingError")
        ELSE Ok([id |-> Unwrap(id),
                 name |-> row.name,
                 email |-> row.email,
                 user_type |-> UserTypeFrom(row.user_type),
                 last_updated_with |-> LastUpdatedWithFrom(row.last_updated_with),
                 created_at |-> row.created_at,
                 updated_at |-> row.updated_at])

\* the columns of UserRow, out of a row of the table
UserRow(r) ==
    [id |-> r.id, name |-> r.name, email |-> r.email,
     last_updated_with |-> r.last_updated_with, user_type |-> r.user_type,
     created_at |-> r.created_at, updated_at |-> r.updated_at]

(***************************************************************************)
(* The users table: a set of rows.  The schema gives created_at the        *)
(* statement's time, leaves updated_at and deleted_at null on insert, and  *)
(* stamps updated_at on every update of a row.                             *)
(***************************************************************************)
\* the schema's defaults for the columns an INSERT does not name
DefaultCreatedAt(ts) == ts
DefaultUpdatedAt == None
DefaultDeletedAt == None

\* INSERT INTO users (id, name, email, last_updated_with, user_type)
\* VALUES ($1, $2, $3, $4, $5)
InsertedRow(id, name, email, db_last_updated_with, db_user_type, ts) ==
    [id |-> id, name |-> name, email |-> email,
     last_updated_with |-> db_last_updated_with, user_type |-> db_user_type,
     created_at |-> DefaultCreatedAt(ts), updated_at |-> DefaultUpdatedAt,
     deleted_at |-> DefaultDeletedAt]

\* the schema's stamp on every updated row
SetUpdatedAt(row, ts) == [row EXCEPT !.updated_at = Some(ts)]

\* a DO UPDATE SET that leaves deleted_at as it is
ConflictUpdatedRowStaysDeleted(old, name, email, db_last_updated_with, db_user_type, ts) ==
    SetUpdatedAt([old EXCEPT !.name = name,
                             !.email = email,
                             !.last_updated_with = db_last_updated_with,
                             !.user_type = db_user_type], ts)

\* a DO UPDATE SET that also sets created_at to the statement's time
ConflictUpdatedRowRestamped(old, name, email, db_last_updated_with, db_user_type, ts) ==
    SetUpdatedAt([old EXCEPT !.name = name,
                             !.email = email,
                             !.last_updated_with = db_last_updated_with,
                             !.user_type = db_user_type,
                             !.deleted_at = None,
                             !.created_at = ts], ts)

\* a DO UPDATE SET that leaves email out
ConflictUpdatedRowKeepsEmail(old, name, email, db_last_updated_with, db_user_type, ts) ==
    SetUpdatedAt([old EXCEPT !.name = name,
                             !.last_updated_with = db_last_updated_with,
                             !.user_type = db_user_type,
                             !.deleted_at = None], ts)

\* DO UPDATE SET name = $2, email = $3, last_updated_with = $4,
\* user_type = $5, deleted_at = null
ConflictUpdatedRow(old, name, email, db_last_updated_with, db_user_type, ts) ==
    SetUpdatedAt([old EXCEPT !.name = name,
                             !.email = email,
                             !.last_updated_with = db_last_updated_with,
                             !.user_type = db_user_type,
                             !.deleted_at = None], ts)

\* a conflict target of the ids of the rows that are not soft-deleted
ConflictRowsActiveOnly(tbl, id) == {r \in tbl : r.id = id /\ r.deleted_at = None}

\* the rows ON CONFLICT (id) finds for the proposed id
ConflictRows(tbl, id) == {r \in tbl : r.id = id}

\* an upsert whose conflict branch returns the xmax of a plain UPDATE's tuple
UpsertStatementPlainXmax(tbl, id, name, email, db_last_updated_with, db_user_type, ts, xid) ==
    LET conflict == ConflictRows(tbl, id)
    IN  IF conflict = {}
        THEN LET row == InsertedRow(id, name, email, db_last_updated_with,
                                    db_user_type, ts)
             IN  [table |-> tbl \cup {row}, returning |-> row, xmax |-> 0]
        ELSE LET old == CHOOSE r \in conflict : TRUE
                 row == ConflictUpdatedRow(old, name, email, db_last_updated_with,
                                           db_user_type, ts)
             IN  [table |-> (tbl \ {old}) \cup {row}, returning |-> row, xmax |-> 0]

\* an upsert that replaces the conflicting row by a newly inserted one
UpsertStatementReplace(tbl, id, name, email, db_last_updated_with, db_user_type, ts, xid) ==
    LET conflict == ConflictRows(tbl, id)
        row == InsertedRow(id, name, email, db_last_updated_with, db_user_type, ts)
    IN  [table |-> (tbl \ conflict) \cup {row}, returning |-> row,
         xmax |-> IF conflict = {} THEN 0 ELSE xid]

\* INSERT ... ON CONFLICT (id) DO UPDATE ... RETURNING: the table after the
\* statement and the returned tuple with its xmax system column, which is 0
\* on a freshly inserted tuple and the updating transaction on a tuple the
\* conflict branch wrote
UpsertStatement(tbl, id, name, email, db_last_updated_with, db_user_type, ts, xid) ==
    LET conflict == ConflictRows(tbl, id)
    IN  IF conflict = {}
        THEN LET row == InsertedRow(id, name, email, db_last_updated_with,
                                    db_user_type, ts)
             IN  [table |-> tbl \cup {row}, returning |-> row, xmax |-> 0]
        ELSE LET old == CHOOSE r \in conflict : TRUE
                 row == ConflictUpdatedRow(old, name, email, db_last_updated_with,
                                           db_user_type, ts)
             IN  [table |-> (tbl \ {old}) \cup {row}, returning |-> row,
                  xmax |-> xid]

\* a SET that scrubs the name and leaves the email
DeletedRowKeepsEmail(old, ts) ==
    SetUpdatedAt([old EXCEPT !.deleted_at = Some(ts),
                             !.name = DeletedUserName], ts)

\* SET deleted_at = now(), name = 'Deleted User', email = null
DeletedRow(old, ts) ==
    SetUpdatedAt([old EXCEPT !.deleted_at = Some(ts),
                             !.name = DeletedUserName,
                             !.email = None], ts)

\* an UPDATE without the WHERE clause
DeleteStatementEveryRow(tbl, id, ts) ==
    [table |-> {DeletedRow(r, ts) : r \in tbl},
     rows_affected |-> Cardinality(tbl)]

\* a delete that matches only rows that are not soft-deleted yet
DeleteStatementActiveOnly(tbl, id, ts) ==
    LET matched == {r \in tbl : r.id = id /\ r.deleted_at = None}
    IN  [table |-> (tbl \ matched) \cup {DeletedRow(r, ts) : r \in matched},
         rows_affected |-> Cardinality(matched)]

\* UPDATE users SET ... WHERE id = $1: the table after the statement and the
\* number of rows it matched
DeleteStatement(tbl, id, ts) ==
    LET matched == {r \in tbl : r.id = id}
    IN  [table |-> (tbl \ matched) \cup {DeletedRow(r, ts) : r \in matched},
         rows_affected |-> Cardinality(matched)]

(***************************************************************************)
(* list_users                                                              *)
(***************************************************************************)
\* the configured page sizes read by CONFIG.page_size_or_pagination_max
PaginationSizeDefault == 2
PaginationSizeMax == 2

\* CONFIG.page_size_or_pagination_max: the default for no requested size,
\* else the requested size clamped to the maximum
PageSizeOrPaginationMax(page_size) ==
    IF ~IsSome(page_size) THEN PaginationSizeDefault
    ELSE IF Unwrap(page_size) > PaginationSizeMax THEN PaginationSizeMax
    ELSE Unwrap(page_size)

\* PaginateToken::V1(V1PaginateToken {created_at, id}).to_string()
PaginateTokenToString(created_at, id) == <<"v1", created_at, UserIdToString(id)>>

\* PaginateToken::try_from: the (created_at, id) of a version 1 token, an
\* error for anything else
PaginateTokenTryFrom(s) ==
    IF Len(s) = 3 /\ s[1] = "v1"
    THEN Ok([created_at |-> s[2], id |-> s[3]])
    ELSE Err("InvalidToken")

RECURSIVE Like(_, _)
\* string LIKE pattern: % matches any run of characters, _ any one character
Like(str, pattern) ==
    IF pattern = <<>> THEN str = <<>>
    ELSE IF Head(pattern) = "%"
         THEN Like(str, Tail(pattern)) \/ (str # <<>> /\ Like(Tail(str), pattern))
    ELSE /\ str # <<>>
         /\ (Head(pattern) = "_" \/ Head(pattern) = Head(str))
         /\ Like(Tail(str), Tail(pattern))

\* string ILIKE pattern
ILike(str, pattern) == Like(LowerStr(str), LowerStr(pattern))

\* list_users with a keyset predicate that compares created_at alone
ListWhereNoTieBreak(u, name_is_empty, filter_name, id_is_none, filter_ids, token_ts, token_id) ==
    /\ u.deleted_at = None
    /\ (name_is_empty \/ ILike(u.name, <<"%">> \o filter_name \o <<"%">>))
    /\ (id_is_none \/ u.id \in filter_ids)
    /\ (IsSome(token_ts) /\ u.created_at > Unwrap(token_ts)) \/ ~IsSome(token_ts)

\* list_users with a keyset predicate that takes the row of the token again
ListWhereFromToken(u, name_is_empty, filter_name, id_is_none, filter_ids, token_ts, token_id) ==
    /\ u.deleted_at = None
    /\ (name_is_empty \/ ILike(u.name, <<"%">> \o filter_name \o <<"%">>))
    /\ (id_is_none \/ u.id \in filter_ids)
    /\ \/ (IsSome(token_ts) /\ u.created_at > Unwrap(token_ts)) \/ ~IsSome(token_ts)
       \/ /\ IsSome(token_ts) /\ IsSome(token_id)
          /\ u.created_at = Unwrap(token_ts)
          /\ ~TextLess(u.id, Unwrap(token_id))

\* an ORDER BY u.id alone
ListOrderLessById(a, b) == TextLess(a.id, b.id)

\* list_users without the deleted_at filter
ListWhereIgnoresDeleted(u, name_is_empty, filter_name, id_is_none, filter_ids, token_ts, token_id) ==
    /\ (name_is_empty \/ ILike(u.name, <<"%">> \o filter_name \o <<"%">>))
    /\ (id_is_none \/ u.id \in filter_ids)
    /\ \/ (IsSome(token_ts) /\ u.created_at > Unwrap(token_ts)) \/ ~IsSome(token_ts)
       \/ /\ IsSome(token_ts) /\ IsSome(token_id)
          /\ u.created_at = Unwrap(token_ts)
          /\ TextLess(Unwrap(token_id), u.id)

\* the WHERE clause of list_users for row u; $1 .. $6 as bound by the call
ListWhere(u, name_is_empty, filter_name, id_is_none, filter_ids, token_ts, token_id) ==
    /\ u.deleted_at = None
    /\ (name_is_empty \/ ILike(u.name, <<"%">> \o filter_name \o <<"%">>))
    /\ (id_is_none \/ u.id \in filter_ids)
    /\ \/ (IsSome(token_ts) /\ u.created_at > Unwrap(token_ts)) \/ ~IsSome(token_ts)
       \/ /\ IsSome(token_ts) /\ IsSome(token_id)
          /\ u.created_at = Unwrap(token_ts)
          /\ TextLess(Unwrap(token_id), u.id)

\* ORDER BY u.created_at, u.id ASC
ListOrderLess(a, b) ==
    \/ a.created_at < b.created_at
    \/ a.created_at = b.created_at /\ TextLess(a.id, b.id)

RECURSIVE ListOrdered(_)
\* the rows of S in the order of ORDER BY u.created_at, u.id
ListOrdered(S) ==
    IF S = {} THEN <<>>
    ELSE LET first == CHOOSE x \in S : \A y \in S : ~ListOrderLess(y, x)
         IN  <<first>> \o ListOrdered(S \ {first})

\* LIMIT n
Limit(rows, n) == SubSeq(rows, 1, IF Len(rows) < n THEN Len(rows) ELSE n)

\* a mapping that leaves out the rows whose id does not parse
CollectUsersSkipping(rows) ==
    LET good == SelectSeq(rows, LAMBDA r : UserTryFrom(r).ok)
    IN  Ok([i \in 1..Len(good) |-> UserTryFrom(good[i]).val])

\* .map(User::try_from).collect::<Result<_>>()
CollectUsers(rows) ==
    LET mapped == [i \in 1..Len(rows) |-> UserTryFrom(rows[i])]
    IN  IF \E i \in 1..Len(rows) : ~mapped[i].ok
        THEN Err("MappingError")
        ELSE Ok([i \in 1..Len(rows) |-> mapped[i].val])

\* list_users with the token taken from the first row of the page
NextPageTokenOfFirst(list) ==
    IF list = <<>> THEN None
    ELSE Some(PaginateTokenToString(list[1].created_at, list[1].id))

\* users.last().map(|u| PaginateToken::V1(..).to_string())
NextPageToken(list) ==
    IF list = <<>> THEN None
    ELSE Some(PaginateTokenToString(list[Len(list)].created_at, list[Len(list)].id))

\* .fetch_all(connection).await.map_err(|e| e.into_error_model(..)): the answer
\* of the store to the statement, or the error of a store that fails
FetchResult(store_ok, answer) ==
    IF store_ok THEN Ok(answer) ELSE Err("StoreError")

\* list_users(filter_user_id, filter_name, PaginationQuery {page_token, page_size},
\* connection): the token is decoded, then the statement runs, then its rows
\* are mapped; store_ok tells whether the connection answers
ListUsersOn(store_ok, tbl, filter_user_id, filter_name, page_token, page_size) ==
    LET limit == PageSizeOrPaginationMax(page_size)
        name == IF IsSome(filter_name) THEN Unwrap(filter_name) ELSE <<>>
        token == IF IsSome(page_token) THEN PaginateTokenTryFrom(Unwrap(page_token))
                 ELSE Ok(None)
    IN  IF ~token.ok THEN token
        ELSE LET token_ts == IF IsSome(page_token) THEN Some(token.val.created_at)
                             ELSE None
                 token_id == IF IsSome(page_token) THEN Some(token.val.id) ELSE None
                 ids == IF IsSome(filter_user_id)
                        THEN {UserIdToString(u) : u \in Unwrap(filter_user_id)}
                        ELSE {}
                 selected == {u \in tbl :
                                ListWhere(u, name = <<>>, name, ~IsSome(filter_user_id),
                                          ids, token_ts, token_id)}
                 rows == Limit(ListOrdered(selected), limit)
                 fetched == FetchResult(store_ok, [i \in 1..Len(rows) |-> UserRow(rows[i])])
             IN  IF ~fetched.ok THEN fetched
                 ELSE LET list == CollectUsers(fetched.val)
                      IN  IF ~list.ok THEN list
                          ELSE Ok([users |-> list.val,
                                   next_page_token |-> NextPageToken(list.val)])

\* list_users over a connection that answers
ListUsers(tbl, filter_user_id, filter_name, page_token, page_size) ==
    ListUsersOn(TRUE, tbl, filter_user_id, filter_name, page_token, page_size)

(***************************************************************************)
(* search_user: the trigram distance <-> of the store                      *)
(***************************************************************************)
RECURSIVE WordsFrom(_, _, _)
\* the words (runs of letters and digits) of s from position i on, after the
\* letters cur of the word i is in
WordsFrom(s, i, cur) ==
    LET done == IF cur = <<>> THEN {} ELSE {cur}
    IN  IF i > Len(s) THEN done
        ELSE IF IsAlnum(s[i]) THEN WordsFrom(s, i + 1, Append(cur, s[i]))
        ELSE done \cup WordsFrom(s, i + 1, <<>>)

\* the trigrams of one word, padded with two blanks before and one after
WordTrigrams(w) ==
    LET padded == <<" ", " ">> \o w \o <<" ">>
    IN  {SubSeq(padded, i, i + 2) : i \in 1..(Len(padded) - 2)}

\* the trigram set of a string: case is folded, each word counts alone
Trigrams(s) == UNION {WordTrigrams(w) : w \in WordsFrom(LowerStr(s), 1, <<>>)}

\* similarity(a, b) as the fraction <<shared trigrams, all trigrams>>
Similarity(a, b) ==
    LET ta == Trigrams(a)
        tb == Trigrams(b)
    IN  IF ta \cup tb = {} THEN <<0, 1>>
        ELSE <<Cardinality(ta \cap tb), Cardinality(ta \cup tb)>>

\* name || ' ' || email: null when email is null
NameEmailConcat(name, email) ==
    IF ~IsSome(email) THEN None ELSE Some(name \o <<" ">> \o Unwrap(email))

\* (name || ' ' || email) <-> $1: null for a null operand, else 1 - similarity,
\* kept as the similarity fraction
SearchDist(row, search_term) ==
    LET text == NameEmailConcat(row.name, row.email)
    IN  IF ~IsSome(text) THEN None ELSE Some(Similarity(Unwrap(text), search_term))

\* d1 < d2 in ORDER BY dist ASC: nulls sort last, a larger similarity is a
\* smaller distance
DistLess(d1, d2) ==
    IF ~IsSome(d1) THEN FALSE
    ELSE IF ~IsSome(d2) THEN TRUE
    ELSE Unwrap(d1)[1] * Unwrap(d2)[2] > Unwrap(d2)[1] * Unwrap(d1)[2]

\* a search with WHERE deleted_at IS NULL
SearchSelectActiveOnly(tbl, search_term) ==
    {[row |-> r, dist |-> SearchDist(r, search_term)] :
        r \in {x \in tbl : x.deleted_at = None}}

\* SELECT ..., (name || ' ' || email) <-> $1 AS dist FROM users
SearchSelect(tbl, search_term) ==
    {[row |-> r, dist |-> SearchDist(r, search_term)] : r \in tbl}

RECURSIVE SearchOrders(_)
\* every order ORDER BY dist ASC may give the selected rows S: rows of equal
\* distance come in any order
SearchOrders(S) ==
    IF S = {} THEN {<<>>}
    ELSE UNION { { <<first.row>> \o rest : rest \in SearchOrders(S \ {first}) } :
                 first \in { x \in S : \A y \in S : ~DistLess(y.dist, x.dist) } }

\* LIMIT 10
SearchLimit == 10

\* the row mapping of search_user
SearchUserFrom(row) ==
    LET id == UserIdTryFrom(row.id)
    IN  IF ~IsSome(id) THEN Err("MappingError")
        ELSE Ok([id |-> Unwrap(id), name |-> row.name,
                 user_type |-> UserTypeFrom(row.user_type), email |-> row.email])

\* search_user(search_term), for one order of the store's answer
SearchUserResult(ordered) ==
    LET rows == Limit(ordered, SearchLimit)
    IN  IF \E i \in 1..Len(rows) : ~SearchUserFrom(rows[i]).ok
        THEN Err("MappingError")
        ELSE Ok([users |-> [i \in 1..Len(rows) |-> SearchUserFrom(rows[i]).val]])

SearchTerms == { <<"t", "o", "m">>, <<"A", "n">> }

(***************************************************************************)
(* Inputs of create_or_update_user                                         *)
(***************************************************************************)
Profiles ==
    { [name |-> NameTom, email |-> None,
       last_updated_with |-> "CreateEndpoint", user_type |-> "Human"],
      [name |-> NameAnn, email |-> Some(EmailAx),
       last_updated_with |-> "ConfigCallCreation", user_type |-> "Application"] }

\* what is remembered of the calls made for each id: how many returned
\* Created, the time of the first create_or_update_user, the last write, the
\* deletes that found a row since the last create_or_update_user, and the
\* create_or_update_user calls that followed such a delete
NoHistory ==
    [created |-> 0, first_at |-> None, last |-> None, deleted_run |-> 0,
     resurrected |-> 0]

\* pagination state of the caller that pages through list_users
PagIdle == [status |-> "idle"]

Init ==
    /\ users = {}
    /\ now = 0
    /\ writes = 0
    /\ resp = [op |-> "none"]
    /\ pag = PagIdle
    /\ hist = [u \in UserIds |-> NoHistory]

\* the stamps the rows of the table carry
Stamps(tbl) ==
    UNION {{r.created_at} \cup {Unwrap(o) : o \in {r.updated_at, r.deleted_at} \ {None}} :
           r \in tbl}

\* the store's clock advances; a reading no statement ran at leaves no trace,
\* so the clock is followed from one used reading to the next
Tick ==
    /\ now < MaxTime
    /\ now \in Stamps(users)
    /\ now' = now + 1
    /\ UNCHANGED <<users, writes, resp, pag, hist>>

\* the paging caller after a write to id: a write made while it is between two
\* pages is counted, and id is no longer one of the rows no write has touched
\* since the first page; a caller that has received its last page is through
PagAfterWrite(id) ==
    IF pag.status = "more"
    THEN [pag EXCEPT !.interleaved = @ + 1, !.untouched = @ \ {UserIdToString(id)}]
    ELSE PagIdle

\* the bounds on the write statements
WriteAllowed ==
    /\ writes < MaxWrites
    /\ pag.status = "more" => pag.interleaved < MaxInterleaved

\* create_or_update_user(id, name, email, last_updated_with, user_type)
CreateOrUpdateUser(id, p) ==
    /\ WriteAllowed
    /\ LET db_last_updated_with == DbLastUpdatedWithFrom(p.last_updated_with)
           st == UpsertStatement(users, UserIdToString(id), p.name, p.email,
                                 db_last_updated_with, DbUserTypeFrom(p.user_type),
                                 now, writes + 1)
           created == (st.xmax = 0)
           user == UserTryFrom(UserRow(st.returning))
       IN  /\ users' = st.table
           /\ resp' = [op |-> "create_or_update_user", id |-> id, args |-> p,
                       result |-> IF ~user.ok THEN user
                                  ELSE IF created
                                       THEN Ok([tag |-> "Created", user |-> user.val])
                                       ELSE Ok([tag |-> "Updated", user |-> user.val])]
           /\ hist' = [hist EXCEPT
                  ![id] = [created |-> @.created + (IF created THEN 1 ELSE 0),
                           first_at |-> IF IsSome(@.first_at) THEN @.first_at
                                        ELSE Some(now),
                           last |-> Some([op |-> "create_or_update_user", args |-> p]),
                           deleted_run |-> 0,
                           resurrected |-> @.resurrected
                                           + (IF @.deleted_run > 0 THEN 1 ELSE 0)]]
    /\ writes' = writes + 1
    /\ pag' = PagAfterWrite(id)
    /\ UNCHANGED now

\* delete_user(id)
DeleteUser(id) ==
    /\ WriteAllowed
    /\ LET st == DeleteStatement(users, UserIdToString(id), now)
       IN  /\ users' = st.table
           /\ resp' = [op |-> "delete_user", id |-> id,
                       result |-> Ok(IF st.rows_affected = 0 THEN None ELSE Some(<<>>))]
           /\ hist' = [hist EXCEPT
                  ![id].last = Some([op |-> "delete_user"]),
                  ![id].deleted_run = @ + (IF st.rows_affected = 0 THEN 0 ELSE 1)]
    /\ writes' = writes + 1
    /\ pag' = PagAfterWrite(id)
    /\ UNCHANGED now

\* the requests the paging caller makes: filters and requested page size
ListRequests ==
    { [filter_user_id |-> None, filter_name |-> None, page_size |-> Some(1)],
      [filter_user_id |-> None, filter_name |-> None, page_size |-> Some(2)],
      [filter_user_id |-> Some({u \in UserIds : u.idp = "oidc"}),
       filter_name |-> Some(<<"t", "O">>), page_size |-> Some(3)] }

\* the caller's state after a response to request rq; pages holds the pages
\* received so far, untouched the ids of the rows that were listable at the
\* first call and that no write has touched since
PagAfter(rq, pages, interleaved, untouched, r) ==
    [status |-> IF ~r.ok THEN "failed"
                ELSE IF IsSome(r.val.next_page_token) THEN "more" ELSE "done",
     request |-> rq,
     token |-> IF r.ok THEN r.val.next_page_token ELSE None,
     pages |-> IF r.ok THEN Append(pages, r.val.users) ELSE pages,
     interleaved |-> interleaved,
     untouched |-> untouched]

\* a first call of list_users, with no page token, by a caller that is not in
\* the middle of a pagination
ListFirst(rq) ==
    /\ pag.status # "more"
    /\ LET r == ListUsers(users, rq.filter_user_id, rq.filter_name, None, rq.page_size)
       IN  /\ resp' = [op |-> "list_users", request |-> rq, page_token |-> None,
                       result |-> r]
           /\ pag' = PagAfter(rq, <<>>, 0, {u.id : u \in {v \in users : v.deleted_at = None}}, r)
    /\ UNCHANGED <<users, now, writes, hist>>

\* the caller passes the next_page_token of its last page back
ListNext ==
    /\ pag.status = "more"
    /\ LET rq == pag.request
           r == ListUsers(users, rq.filter_user_id, rq.filter_name, pag.token,
                          rq.page_size)
       IN  /\ resp' = [op |-> "list_users", request |-> rq, page_token |-> pag.token,
                       result |-> r]
           /\ pag' = PagAfter(rq, pag.pages, pag.interleaved, pag.untouched, r)
    /\ UNCHANGED <<users, now, writes, hist>>

\* search_user(search_term), by a caller that is not paging through the list
SearchUser(search_term) ==
    /\ pag.status = "idle"
    /\ \E ordered \in SearchOrders(SearchSelect(users, search_term)) :
          resp' = [op |-> "search_user", search_term |-> search_term,
                   result |-> SearchUserResult(ordered)]
    /\ UNCHANGED <<users, now, writes, pag, hist>>

Next ==
    \/ Tick
    \/ \E id \in UserIds, p \in Profiles : CreateOrUpdateUser(id, p)
    \/ \E id \in UserIds : DeleteUser(id)
    \/ \E rq \in ListRequests : ListFirst(rq)
    \/ ListNext
    \/ \E search_term \in SearchTerms : SearchUser(search_term)

Spec == Init /\ [][Next]_vars

(***************************************************************************)
(* Single calls with any input, on a store that may fail and that may hold *)
(* a row written by others whose id is no UserId.                          *)
(***************************************************************************)
\* a row of the table whose id does not parse; deleted_at as given
ForeignRow(deleted_at) ==
    [id |-> <<"o", "i", "d", "c">>, name |-> NameTom, email |-> Some(EmailAx),
     last_updated_with |-> "create-endpoint", user_type |-> "human",
     created_at |-> 0, updated_at |-> None, deleted_at |-> deleted_at]

CallTables == { {}, {ForeignRow(None)} }

\* the page tokens a caller may send: none, one of an unsupported version, and
\* the token of a row
CallTokens ==
    { None,
      Some(<<"v2", 0, <<"o", "i", "d", "c", "~", "1">> >>),
      Some(PaginateTokenToString(0, [idp |-> "kubernetes", sub |-> "1"])) }

\* the filters and page sizes a caller may send
CallRequests ==
    { [filter_user_id |-> None, filter_name |-> None, page_size |-> Some(2)],
      [filter_user_id |-> Some({}), filter_name |-> None, page_size |-> None],
      [filter_user_id |-> Some({u \in UserIds : u.sub = "1"}),
       filter_name |-> Some(<<"o", "M">>), page_size |-> Some(2)],
      [filter_user_id |-> None, filter_name |-> Some(<<"_">>), page_size |-> Some(2)] }

InitCalls ==
    /\ users \in CallTables
    /\ now = 0
    /\ writes = 0
    /\ resp = [op |-> "none"]
    /\ pag = PagIdle
    /\ hist = [u \in UserIds |-> NoHistory]

\* list_users with any token, on a connection that answers or fails
ListUsersCall(store_ok, rq, page_token) ==
    /\ resp' = [op |-> "list_users", request |-> rq, page_token |-> page_token,
                store_ok |-> store_ok,
                result |-> ListUsersOn(store_ok, users, rq.filter_user_id,
                                       rq.filter_name, page_token, rq.page_size)]
    /\ UNCHANGED <<users, now, writes, pag, hist>>

\* create_or_update_user on a connection that answers or fails
CreateOrUpdateUserCall(store_ok, id, p) ==
    IF store_ok THEN writes < MaxCallWrites /\ CreateOrUpdateUser(id, p)
    ELSE /\ resp' = [op |-> "create_or_update_user", id |-> id, args |-> p,
                     result |-> FetchResult(store_ok, <<>>)]
         /\ UNCHANGED <<users, now, writes, pag, hist>>

\* delete_user on a connection that answers or fails
DeleteUserCall(store_ok, id) ==
    IF store_ok THEN writes < MaxCallWrites /\ DeleteUser(id)
    ELSE /\ resp' = [op |-> "delete_user", id |-> id,
                     result |-> FetchResult(store_ok, <<>>)]
         /\ UNCHANGED <<users, now, writes, pag, hist>>

\* search_user on a connection that answers or fails
SearchUserCall(store_ok, search_term) ==
    IF store_ok THEN SearchUser(search_term)
    ELSE /\ resp' = [op |-> "search_user", search_term |-> search_term,
                     result |-> FetchResult(store_ok, <<>>)]
         /\ UNCHANGED <<users, now, writes, pag, hist>>

NextCalls ==
    \/ Tick
    \/ \E store_ok \in BOOLEAN, id \in UserIds, p \in Profiles :
          CreateOrUpdateUserCall(store_ok, id, p)
    \/ \E store_ok \in BOOLEAN, id \in UserIds : DeleteUserCall(store_ok, id)
    \/ \E store_ok \in BOOLEAN, rq \in CallRequests, page_token \in CallTokens :
          ListUsersCall(store_ok, rq, page_token)
    \/ \E store_ok \in BOOLEAN, search_term \in SearchTerms :
          SearchUserCall(store_ok, search_term)

SpecCalls == InitCalls /\ [][NextCalls]_vars

(***************************************************************************)
(* Properties                                                              *)
(***************************************************************************)
\* the rows list_users may show
Visible(tbl) == {r \in tbl : r.deleted_at = None}

\* the rows the table holds for a UserId
RowsOf(tbl, id) == {r \in tbl : r.id = UserIdToString(id)}

Unfiltered(rq) == rq.filter_user_id = None /\ rq.filter_name = None

RECURSIVE Flatten(_)
Flatten(pages) == IF pages = <<>> THEN <<>> ELSE Head(pages) \o Flatten(Tail(pages))

NonEmptyPage(page) == page # <<>>

\* u comes before v in (createdAt, id) order
UserBefore(u, v) ==
    \/ u.created_at < v.created_at
    \/ /\ u.created_at = v.created_at
       /\ TextLess(UserIdToString(u.id), UserIdToString(v.id))

Ascending(list) == \A i \in 1..(Len(list) - 1) : UserBefore(list[i], list[i + 1])

Ceil(n, k) == (n + k - 1) \div k

\* the caller has paged through the unfiltered list to the end with page size
\* k, and no write was made meanwhile
PagedQuietly(k) ==
    /\ pag.status = "done"
    /\ pag.interleaved = 0
    /\ Unfiltered(pag.request)
    /\ pag.request.page_size = Some(k)

\* C1: with no write made during the pagination, listing N users without
\* filters in pages of K (1 <= K <= the configured maximum), from no token on
\* and passing each nextPageToken back, gives exactly ceil(N/K) non-empty
\* pages, whose concatenation holds each of the N users exactly once, in
\* ascending (createdAt, id) order.
C1_PaginationComplete ==
    \A k \in 1..PaginationSizeMax :
        PagedQuietly(k) =>
            LET all == Flatten(pag.pages)
                n == Cardinality(Visible(users))
            IN  /\ Len(SelectSeq(pag.pages, NonEmptyPage)) = Ceil(n, k)
                /\ Len(all) = n
                /\ {all[i] : i \in 1..Len(all)}
                      = {UserTryFrom(UserRow(r)).val : r \in Visible(users)}
                /\ Ascending(all)

\* three users were listed in pages of two: a full page, a page of one, and
\* the empty page
C1_Witness ==
    /\ PagedQuietly(2)
    /\ Cardinality(Visible(users)) = 3
    /\ Len(pag.pages) = 3
    /\ Len(pag.pages[2]) = 1

\* C2: list returns a nextPageToken exactly when the page is non-empty (also
\* for a page shorter than the page size), and the token holds the
\* (createdAt, id) of the last row of the page; so, with no write made
\* meanwhile, a caller that repeats list until the token is absent makes at
\* most one call more than there are users, and its last call is the only one
\* that returns an empty page.
C2_TokenIffNonEmpty ==
    /\ (resp.op = "list_users" /\ resp.result.ok) =>
          LET page == resp.result.val.users
              token == resp.result.val.next_page_token
              last == page[Len(page)]
          IN  /\ IsSome(token) <=> page # <<>>
              /\ page # <<>> =>
                    PaginateTokenTryFrom(Unwrap(token))
                       = Ok([created_at |-> last.created_at,
                             id |-> UserIdToString(last.id)])
    /\ (pag.status \in {"more", "done"} /\ pag.interleaved = 0) =>
          /\ Len(pag.pages) <= Cardinality(Visible(users)) + 1
          /\ \A i \in 1..Len(pag.pages) :
                pag.pages[i] = <<>> <=> (i = Len(pag.pages) /\ pag.status = "done")

\* a caller got a page shorter than the page size with a token, and then the
\* empty page that ended its pagination
C2_Witness ==
    /\ pag.status = "done"
    /\ pag.interleaved = 0
    /\ Len(pag.pages) = 3
    /\ Len(pag.pages[2]) < PageSizeOrPaginationMax(pag.request.page_size)
    /\ pag.pages[3] = <<>>
    /\ resp.op = "list_users"
    /\ resp.result.val.next_page_token = None

RECURSIVE PagesFrom(_, _, _, _)
\* the pages of the unfiltered list from page_token on, to the page that
\* carries no token (fuel bounds the number of calls)
PagesFrom(tbl, page_size, page_token, fuel) ==
    LET r == ListUsers(tbl, None, None, page_token, page_size)
    IN  IF ~r.ok \/ fuel = 0 THEN <<>>
        ELSE IF ~IsSome(r.val.next_page_token) THEN <<r.val.users>>
        ELSE <<r.val.users>>
                \o PagesFrom(tbl, page_size, r.val.next_page_token, fuel - 1)

\* the unfiltered list of the table, paginated to the end in pages of k
ListedAll(tbl, k) == Flatten(PagesFrom(tbl, Some(k), None, Cardinality(tbl) + 1))

ListedIds(tbl, k) ==
    LET all == ListedAll(tbl, k) IN {all[i].id : i \in 1..Len(all)}

\* this step is a call of create_or_update_user / of delete_user
CreateStep == writes' = writes + 1 /\ resp'.op = "create_or_update_user"
DeleteStep == writes' = writes + 1 /\ resp'.op = "delete_user"

LastWasUpsert(id) ==
    IsSome(hist[id].last) /\ Unwrap(hist[id].last).op = "create_or_update_user"
LastWasDelete(id) ==
    IsSome(hist[id].last) /\ Unwrap(hist[id].last).op = "delete_user"

\* C3: a createOrUpdate(id, ...) call returns Created exactly when no row with
\* that id, active or soft-deleted, existed right before it, and Updated
\* otherwise; a second createOrUpdate of the same id right after the first
\* returns Updated, and the returned and the listed user keep the id and carry
\* the name of the call.
C3_CreatedIffNew ==
    [][CreateStep =>
          LET id == resp'.id
              res == resp'.result
              all == ListedAll(users', PaginationSizeMax)
          IN  /\ res.ok
              /\ res.val.tag = "Created" <=> RowsOf(users, id) = {}
              /\ res.val.tag = "Updated" <=> RowsOf(users, id) # {}
              /\ (resp.op = "create_or_update_user" /\ resp.id = id)
                    => res.val.tag = "Updated"
              /\ res.val.user.id = id
              /\ res.val.user.name = resp'.args.name
              /\ \E i \in 1..Len(all) :
                    all[i].id = id /\ all[i].name = resp'.args.name
      ]_vars

\* a second createOrUpdate of an id that was never deleted returned Updated
\* and the name of the second call
C3_Witness ==
    /\ resp.op = "create_or_update_user"
    /\ resp.result.val.tag = "Updated"
    /\ hist[resp.id].created = 1
    /\ hist[resp.id].resurrected = 0
    /\ resp.args.name = NameAnn
    /\ resp.result.val.user.name = NameAnn
    /\ resp.result.val.user.id = resp.id

\* C4: under every interleaving of createOrUpdate and delete calls for an id,
\* the table never holds more than one row with that id, and of all the
\* createOrUpdate calls made for an id exactly one returned Created (every
\* other one Updated): the tag is read off the tuple the statement wrote.
C4_OneRowPerId ==
    /\ \A id \in UserIds :
          /\ Cardinality(RowsOf(users, id)) <= 1
          /\ hist[id].created <= 1
          /\ hist[id].created = 1 <=> IsSome(hist[id].first_at)
          /\ hist[id].created = Cardinality(RowsOf(users, id))
    /\ resp.op = "create_or_update_user" =>
          /\ resp.result.ok
          /\ resp.result.val.tag \in {"Created", "Updated"}

\* two createOrUpdate calls for one id ran at the same reading of the clock:
\* one inserted the row, the other returned Updated
C4_Witness ==
    /\ resp.op = "create_or_update_user"
    /\ resp.result.val.tag = "Updated"
    /\ hist[resp.id].created = 1
    /\ \E r \in RowsOf(users, resp.id) : r.updated_at = Some(r.created_at)

\* C5: a createOrUpdate(id, ...) that follows a delete of the existing id
\* writes the same row again instead of adding one: deletedAt is cleared, the
\* call is tagged Updated, the list shows the user exactly once with the name,
\* email, userType and lastUpdatedWith of the call, and createdAt is that of
\* the first insert.
C5_Resurrection ==
    [][(CreateStep /\ \E r \in RowsOf(users, resp'.id) : r.deleted_at # None) =>
          LET id == resp'.id
              args == resp'.args
              old == CHOOSE r \in RowsOf(users, id) : TRUE
              all == ListedAll(users', 1)
              shown == {i \in 1..Len(all) : all[i].id = id}
          IN  /\ Cardinality(users') = Cardinality(users)
              /\ Cardinality(RowsOf(users', id)) = 1
              /\ \A r \in RowsOf(users', id) :
                    /\ r.deleted_at = None
                    /\ r.created_at = old.created_at
                    /\ Some(r.created_at) = hist[id].first_at
              /\ resp'.result.ok /\ resp'.result.val.tag = "Updated"
              /\ Cardinality(shown) = 1
              /\ \A i \in shown :
                    /\ all[i].name = args.name
                    /\ all[i].email = args.email
                    /\ all[i].user_type = args.user_type
                    /\ all[i].last_updated_with = args.last_updated_with
                    /\ Some(all[i].created_at) = hist[id].first_at
      ]_vars

\* an id was created, deleted and created again
C5_Witness ==
    /\ resp.op = "create_or_update_user"
    /\ writes = 3
    /\ hist[resp.id].resurrected = 1
    /\ hist[resp.id].created = 1
    /\ \E r \in RowsOf(users, resp.id) : r.deleted_at = None
    /\ resp.id \in ListedIds(users, 1)

\* what list may show: table tbl, last response r, call history h
ListHidesDeleted(tbl, r, h) ==
    /\ (r.op = "list_users" /\ r.result.ok) =>
          \A i \in 1..Len(r.result.val.users) :
              /\ RowsOf(tbl, r.result.val.users[i].id) # {}
              /\ \A row \in RowsOf(tbl, r.result.val.users[i].id) :
                    row.deleted_at = None
    /\ LET deleted == {id \in UserIds :
                          IsSome(h[id].last) /\ Unwrap(h[id].last).op = "delete_user"}
       IN  deleted # {} => deleted \cap ListedIds(tbl, PaginationSizeMax) = {}

\* C6: list never returns a row whose deletedAt is set, whatever the filters
\* and the token; a delete(id) of an active user takes id, and nothing else,
\* out of the unfiltered list, which holds one user fewer; and id stays out
\* of the list until a createOrUpdate for it.
C6_DeleteHidesFromList ==
    [][/\ ListHidesDeleted(users', resp', hist')
       /\ (DeleteStep /\ \E r \in RowsOf(users, resp'.id) : r.deleted_at = None) =>
             LET before == ListedAll(users, PaginationSizeMax)
                 after == ListedAll(users', PaginationSizeMax)
             IN  /\ \E i \in 1..Len(before) : before[i].id = resp'.id
                 /\ {after[i].id : i \in 1..Len(after)}
                       = {before[i].id : i \in 1..Len(before)} \ {resp'.id}
                 /\ Len(after) = Len(before) - 1
      ]_vars

\* a user was deleted while another one stays listed, and a list call made
\* after the delete returned the other one
C6_Witness ==
    /\ resp.op = "list_users"
    /\ resp.result.ok
    /\ Len(resp.result.val.users) = 1
    /\ \E id \in UserIds : LastWasDelete(id) /\ hist[id].deleted_run = 1
    /\ Cardinality(users) = 2

\* C7: delete(id) returns the absent outcome, not an error, exactly when no
\* row with that id was ever created, and the present outcome whenever a row
\* with that id exists, active or soft-deleted: two deletes in a row of an
\* existing id both return present.
C7_DeleteOutcome ==
    /\ resp.op = "delete_user" =>
          /\ resp.result.ok
          /\ resp.result.val = None <=> ~IsSome(hist[resp.id].first_at)
          /\ RowsOf(users, resp.id) # {} <=> resp.result.val = Some(<<>>)
    /\ \A id \in UserIds : RowsOf(users, id) # {} <=> IsSome(hist[id].first_at)

\* the second of two deletes in a row of an existing id returned present
C7_Witness ==
    /\ resp.op = "delete_user"
    /\ resp.result.val = Some(<<>>)
    /\ hist[resp.id].deleted_run = 2

\* C8: after any sequence of createOrUpdate and delete calls, the unfiltered
\* list, paginated to the end, returns exactly the ids whose last write was a
\* createOrUpdate, each once, with the id, name, email, userType and
\* lastUpdatedWith given to that call.
C8_LastWriteWins ==
    \A k \in 1..PaginationSizeMax :
        LET all == ListedAll(users, k)
            live == {id \in UserIds : LastWasUpsert(id)}
        IN  /\ {all[i].id : i \in 1..Len(all)} = live
            /\ Len(all) = Cardinality(live)
            /\ \A i \in 1..Len(all) :
                  LastWasUpsert(all[i].id) =>
                      LET args == Unwrap(hist[all[i].id].last).args
                      IN  /\ all[i].name = args.name
                          /\ all[i].email = args.email
                          /\ all[i].user_type = args.user_type
                          /\ all[i].last_updated_with = args.last_updated_with

\* the last write of one existing id was a delete, that of another id a
\* createOrUpdate, and the list shows the one user
C8_Witness ==
    /\ \E id \in UserIds : LastWasDelete(id) /\ hist[id].deleted_run = 1
    /\ \E id \in UserIds : LastWasUpsert(id)
    /\ Cardinality(users) = 2
    /\ Len(ListedAll(users, 1)) = 1

\* C9: createOrUpdate sets updatedAt by the branch it takes: with no row of
\* the id before, the inserted row and the returned Created user have
\* updatedAt null; with a row before, active or soft-deleted, updatedAt is the
\* time of the call, on the row and on the returned Updated user.
C9_UpdatedAtByBranch ==
    [][CreateStep =>
          LET id == resp'.id
              res == resp'.result
          IN  /\ res.ok
              /\ RowsOf(users', id) # {}
              /\ IF RowsOf(users, id) = {}
                 THEN /\ res.val.tag = "Created"
                      /\ res.val.user.updated_at = None
                      /\ \A r \in RowsOf(users', id) : r.updated_at = None
                 ELSE /\ res.val.tag = "Updated"
                      /\ res.val.user.updated_at = Some(now)
                      /\ \A r \in RowsOf(users', id) : r.updated_at = Some(now)
      ]_vars

\* an update made after the clock advanced past the insert
C9_Witness ==
    /\ resp.op = "create_or_update_user"
    /\ resp.result.val.tag = "Updated"
    /\ resp.result.val.user.created_at = 0
    /\ resp.result.val.user.updated_at = Some(1)
    /\ \E id \in UserIds \ {resp.id} :
          \E r \in RowsOf(users, id) : r.updated_at = None

\* the text the distance of a user is taken of: its name and its email
SearchText(u) ==
    u.name \o <<" ">> \o (IF IsSome(u.email) THEN Unwrap(u.email) ELSE <<>>)

\* a is strictly closer to the term than b
StrictlyCloser(a, b, search_term) ==
    LET sa == Similarity(SearchText(a), search_term)
        sb == Similarity(SearchText(b), search_term)
    IN  sa[1] * sb[2] > sb[1] * sa[2]

\* C10: search(term) returns at most 10 users, in ascending order of the
\* distance between the term and the user's name and email, and no row left
\* out is strictly closer than a returned one, for every stored row set,
\* rows without email included.
C10_SearchOrder ==
    (resp.op = "search_user" /\ resp.result.ok) =>
        LET found == resp.result.val.users
            term == resp.search_term
            left == {r \in users :
                       \A i \in 1..Len(found) : UserIdToString(found[i].id) # r.id}
        IN  /\ Len(found) <= SearchLimit
            /\ \A i, j \in 1..Len(found) :
                  i < j => ~StrictlyCloser(found[j], found[i], term)
            /\ \A r \in left : \A i \in 1..Len(found) :
                  ~StrictlyCloser(r, found[i], term)

\* name holds f as a substring, letter case aside
ContainsIgnoringCase(name, f) ==
    \E i \in 0..(Len(name) - Len(f)) :
        LowerStr(SubSeq(name, i + 1, i + Len(f))) = LowerStr(f)

\* row r comes after the (createdAt, id) of page_token; every row does when
\* there is no token
AfterToken(r, page_token) ==
    \/ page_token = None
    \/ LET t == PaginateTokenTryFrom(Unwrap(page_token)).val
       IN  \/ t.created_at < r.created_at
           \/ t.created_at = r.created_at /\ TextLess(t.id, r.id)

\* the rows a list call asks for: not soft-deleted, passing the filters of
\* request rq, after the token
Candidates(tbl, rq, page_token) ==
    {r \in tbl :
        /\ r.deleted_at = None
        /\ rq.filter_name = None \/ ContainsIgnoringCase(r.name, Unwrap(rq.filter_name))
        /\ rq.filter_user_id = None
              \/ \E u \in Unwrap(rq.filter_user_id) : UserIdToString(u) = r.id
        /\ AfterToken(r, page_token)}

\* row p comes before row q in (createdAt, id) order
RowBefore(p, q) ==
    \/ p.created_at < q.created_at
    \/ p.created_at = q.created_at /\ TextLess(p.id, q.id)

Min(a, b) == IF a < b THEN a ELSE b

\* the k smallest rows of S in (createdAt, id) order, all of S if it has fewer
FirstRows(S, k) ==
    CHOOSE P \in SUBSET S :
        /\ Cardinality(P) = Min(k, Cardinality(S))
        /\ \A p \in P, q \in S \ P : RowBefore(p, q)

BadToken(page_token) ==
    page_token # None /\ ~PaginateTokenTryFrom(Unwrap(page_token)).ok

\* C11: a list call whose page token does not decode fails with InvalidToken
\* whatever the store holds or answers; a list call whose page holds a row
\* with an id that is no UserId fails as a whole with MappingError, returning
\* neither the other rows nor a nextPageToken; and a failed list, delete,
\* createOrUpdate or search carries its error and no success value.
C11_NoPartialResults ==
    /\ resp.op = "list_users" =>
          /\ BadToken(resp.page_token) => resp.result = Err("InvalidToken")
          /\ (~BadToken(resp.page_token) /\ resp.store_ok) =>
                LET page == FirstRows(Candidates(users, resp.request, resp.page_token),
                                      PageSizeOrPaginationMax(resp.request.page_size))
                IN  (\E r \in page : UserIdTryFrom(r.id) = None)
                        => resp.result = Err("MappingError")
    /\ (resp.op # "none" /\ ~resp.result.ok) =>
          /\ DOMAIN resp.result = {"ok", "err"}
          /\ resp.result.err \in {"InvalidToken", "MappingError", "StoreError"}

\* a list call failed with MappingError on a page that also holds a row whose
\* id parses
C11_Witness ==
    /\ resp.op = "list_users"
    /\ resp.result = Err("MappingError")
    /\ LET page == FirstRows(Candidates(users, resp.request, resp.page_token),
                             PageSizeOrPaginationMax(resp.request.page_size))
       IN  /\ \E r \in page : UserIdTryFrom(r.id) = None
           /\ \E r \in page : UserIdTryFrom(r.id) # None

\* C12: the page of a list call with token (T, I) and effective page size K is
\* the first K rows, in ascending (createdAt, id) order, of the rows that pass
\* the filters, are not soft-deleted and come after (T, I); every returned row
\* is strictly greater than the token, a row that shares the token's
\* createdAt and has a larger id is not skipped, and with no token the page
\* starts at the smallest row.
C12_KeysetPage ==
    (resp.op = "list_users" /\ resp.result.ok) =>
        LET page == resp.result.val.users
            tok == resp.page_token
            k == PageSizeOrPaginationMax(resp.request.page_size)
            cands == Candidates(users, resp.request, tok)
            t == PaginateTokenTryFrom(Unwrap(tok)).val
        IN  /\ Len(page) = Min(k, Cardinality(cands))
            /\ Ascending(page)
            /\ {page[i] : i \in 1..Len(page)}
                  = {UserTryFrom(UserRow(r)).val : r \in FirstRows(cands, k)}
            /\ tok # None =>
                  \A i \in 1..Len(page) :
                      \/ t.created_at < page[i].created_at
                      \/ /\ t.created_at = page[i].created_at
                         /\ TextLess(t.id, UserIdToString(page[i].id))
            /\ (tok # None /\ page # <<>>) =>
                  \A r \in Visible(users) :
                      (r.created_at = t.created_at /\ TextLess(t.id, r.id)
                         /\ resp.request.filter_user_id = None
                         /\ resp.request.filter_name = None)
                      => ~RowBefore(r, [created_at |-> page[1].created_at,
                                        id |-> UserIdToString(page[1].id)])
            /\ (tok = None /\ cands # {}) =>
                  \A r \in cands :
                      ~RowBefore(r, [created_at |-> page[1].created_at,
                                     id |-> UserIdToString(page[1].id)])

\* a page of one row that shares the createdAt of the token and has the next
\* larger id, with a further row left for the page after it
C12_Witness ==
    /\ resp.op = "list_users"
    /\ resp.result.ok
    /\ resp.page_token # None
    /\ Len(resp.result.val.users) = 1
    /\ resp.result.val.users[1].created_at
          = PaginateTokenTryFrom(Unwrap(resp.page_token)).val.created_at
    /\ Cardinality(Candidates(users, resp.request, resp.page_token)) = 2

\* C13: delete(id) on an existing row, soft-deleted or not, sets deletedAt to
\* the current time, name to 'Deleted User' and email to null, and leaves id,
\* createdAt, userType and lastUpdatedWith as they were; a delete of a row
\* that is soft-deleted already leaves name, email and the absence from the
\* list as they were and gives deletedAt the new time.
C13_DeleteScrubs ==
    [][(DeleteStep /\ RowsOf(users, resp'.id) # {}) =>
          LET id == resp'.id
              old == CHOOSE r \in RowsOf(users, id) : TRUE
          IN  /\ Cardinality(RowsOf(users', id)) = 1
              /\ \A new \in RowsOf(users', id) :
                    /\ new.deleted_at = Some(now)
                    /\ new.name = <<"D", "e", "l", "e", "t", "e", "d", " ",
                                    "U", "s", "e", "r">>
                    /\ new.email = None
                    /\ new.id = old.id
                    /\ new.created_at = old.created_at
                    /\ new.user_type = old.user_type
                    /\ new.last_updated_with = old.last_updated_with
                    /\ old.deleted_at # None =>
                          /\ new.name = old.name
                          /\ new.email = old.email
                          /\ id \notin ListedIds(users, PaginationSizeMax)
                          /\ id \notin ListedIds(users', PaginationSizeMax)
      ]_vars

\* a row made by an application's createOrUpdate with an email was deleted,
\* and deleted again after the clock advanced
C13_Witness ==
    /\ resp.op = "delete_user"
    /\ hist[resp.id].deleted_run = 2
    /\ \E r \in RowsOf(users, resp.id) :
          /\ r.created_at = 0
          /\ r.deleted_at = Some(1)
          /\ r.user_type = "application"
          /\ r.email = None

\* C14: after any sequence of createOrUpdate and delete calls, the createdAt
\* of each row is the time of the first insert of its id: no update, soft
\* delete or resurrection changes it, and the rows keep their relative
\* (createdAt, id) order.
C14_CreatedAtFixed ==
    [][/\ \A id \in UserIds : \A new \in RowsOf(users', id) :
             /\ Some(new.created_at) = hist'[id].first_at
             /\ \A old \in RowsOf(users, id) : new.created_at = old.created_at
       /\ \A a, b \in users : \A c, d \in users' :
             (c.id = a.id /\ d.id = b.id) => (RowBefore(a, b) <=> RowBefore(c, d))
      ]_vars

\* a row inserted at time 0 was deleted and, after the clock advanced, written
\* again by createOrUpdate
C14_Witness ==
    /\ resp.op = "create_or_update_user"
    /\ hist[resp.id].resurrected = 1
    /\ \E r \in RowsOf(users, resp.id) :
          /\ r.created_at = 0
          /\ r.updated_at = Some(1)
          /\ r.deleted_at = None
    /\ now = 1

\* how often the user with the stored id is on the pages
TimesListed(pages, id) ==
    LET all == Flatten(pages)
    IN  Cardinality({i \in 1..Len(all) : UserIdToString(all[i].id) = id})

\* C15: a caller pages through the unfiltered list with a fixed page size,
\* passing the tokens back, while createOrUpdate and delete calls are made
\* between its calls; a user that was listable at the first call and that no
\* such write touched is on at most one page so far and, once the caller has
\* received the page without token, on exactly one.
C15_StableUnderWrites ==
    (pag.status \in {"more", "done"} /\ Unfiltered(pag.request)) =>
        \A id \in pag.untouched :
            /\ TimesListed(pag.pages, id) <= 1
            /\ pag.status = "done" => TimesListed(pag.pages, id) = 1

\* two users were paged in pages of one while a third was created after the
\* first page; the caller got both, and the new one, and the empty page
C15_Witness ==
    /\ pag.status = "done"
    /\ Unfiltered(pag.request)
    /\ pag.request.page_size = Some(1)
    /\ pag.interleaved = 1
    /\ Cardinality(pag.untouched) = 2
    /\ Len(pag.pages) = 4
    /\ resp.op = "list_users"

\* C16: with a name filter F, a list call returns the rows (not soft-deleted,
\* after the token, within the page size) whose name holds F as a substring,
\* letter case aside, for every F, also one with the characters % or _; with
\* no name filter every name passes; with an id set only the rows whose id is
\* in the set are returned, none for the empty set; with no id set every id
\* passes.
C16_Filters ==
    (resp.op = "list_users" /\ resp.result.ok) =>
        LET page == resp.result.val.users
            rq == resp.request
            k == PageSizeOrPaginationMax(rq.page_size)
            cands == Candidates(users, rq, resp.page_token)
        IN  /\ {UserIdToString(page[i].id) : i \in 1..Len(page)}
                  = {r.id : r \in FirstRows(cands, k)}
            /\ rq.filter_name # None =>
                  \A i \in 1..Len(page) :
                      ContainsIgnoringCase(page[i].name, Unwrap(rq.filter_name))
            /\ rq.filter_user_id # None =>
                  \A i \in 1..Len(page) : page[i].id \in Unwrap(rq.filter_user_id)

\* C17: search does not look at the soft-delete marker: a soft-deleted row is
\* still among the rows search returns (as long as the table has no more rows
\* than search returns), with the name 'Deleted User' and no email, while no
\* list call returns it.
C17_SearchShowsDeleted ==
    /\ (resp.op = "search_user" /\ resp.result.ok
          /\ Cardinality(users) <= SearchLimit) =>
          LET found == resp.result.val.users
          IN  \A r \in users \ Visible(users) :
                  \E i \in 1..Len(found) :
                      /\ UserIdToString(found[i].id) = r.id
                      /\ found[i].name = DeletedUserName
                      /\ found[i].email = None
    /\ (resp.op = "list_users" /\ resp.result.ok) =>
          LET page == resp.result.val.users
          IN  \A r \in users \ Visible(users) :
                  \A i \in 1..Len(page) : UserIdToString(page[i].id) # r.id

\* a search made after a delete returned the deleted user, scrubbed, and a
\* user that is not deleted
C17_Witness ==
    /\ resp.op = "search_user"
    /\ resp.result.ok
    /\ Len(resp.result.val.users) = 2
    /\ \E i \in 1..2 :
          /\ LastWasDelete(resp.result.val.users[i].id)
          /\ resp.result.val.users[i].name = DeletedUserName
    /\ Cardinality(Visible(users)) = 1

\* C18: createOrUpdate(id, ...) and delete(id) change no row but that of id,
\* and leave every field of every other row as it was; list and search
\* change no row; and a delete of an id that has no row leaves the table as
\* it was.
C18_Frame ==
    [][/\ (CreateStep \/ DeleteStep) =>
             /\ users' \ RowsOf(users', resp'.id) = users \ RowsOf(users, resp'.id)
             /\ Cardinality(RowsOf(users', resp'.id)) <= 1
       /\ (DeleteStep /\ RowsOf(users, resp'.id) = {}) => users' = users
       /\ (writes' = writes /\ resp'.op \in {"list_users", "search_user"})
             => users' = users
      ]_vars

\* a delete of an id that has no row, made on a table of two rows
C18_Witness ==
    /\ resp.op = "delete_user"
    /\ resp.result.val = None
    /\ Cardinality(users) = 2
    /\ Cardinality(Visible(users)) = 2

====
